---- MODULE Spec2Model ----
(***************************************************************************)
(* Workout cache of workout-optimizer: the Hevy sync                       *)
(* (backend/services/workout_service.py), the Apple Health save            *)
(* (backend/services/apple_health_service.py), the workout_cache table     *)
(* (backend/db/models.py) and the read-time reconciler                     *)
(* deduplicate_workouts.                                                   *)
(*                                                                         *)
(* Instants are seconds, durations are minutes.  An Optional[int] column   *)
(* is the empty sequence (None) or a one-element sequence.                 *)
(***************************************************************************)
EXTENDS Integers, Sequences, FiniteSets, TLC

\* ---------------------------------------------------------------- bounds
MaxLen == 3          \* longest list handed to deduplicate_workouts
MaxTime == 1         \* last value of the database clock
MaxPage == 3         \* page counter saturates here ("MaxPage or later")
PageSize == 2        \* page_size passed to sync_hevy_workouts
MaxSets == 2         \* most sets of one exercise
MaxExercises == 2    \* most exercises of one workout
MaxSessions == 6     \* most sessions get_exercise_history returns

\* ------------------------------------------------------------- constants
MinSessions == 4
WindowSessions == 5
MinPlateauDays == 14
FlatPerMille == 1025
PerMille == 1000
HoursPerDay == 24
DaysPerWeek == 7
DaySeconds == 86400
DirectOverlapSeconds == 1800
DurationToleranceMinutes == 2
SameDaySeconds == 86400
HourSeconds == 3600
DriftLowSeconds == 300
DriftHighSeconds == 3300

None == <<>>
Some(x) == <<x>>

Abs(x) == IF x < 0 THEN -x ELSE x
Min(a, b) == IF a < b THEN a ELSE b

\* Python `x or 0` on an Optional[int]
OrZero(d) == IF d = None THEN 0 ELSE d[1]

VARIABLES
    cache,            \* workout_cache: the committed rows
    now,              \* database clock (func.now())
    pc,               \* per request: position in the handler
    kind,             \* per request: "hevy" (sync) or "apple_health" (save)
    user,             \* per request: user_id
    sync_all,         \* per request: sync_all argument
    page,             \* per request: page counter of the sync loop
    total_processed,  \* per request: running count
    batch,            \* per request: records_to_insert of the statement
    pending,          \* per request: rows written by the open transaction
    response,         \* per request: what the caller receives
    lastUpsert,       \* the statement committed last: its path, user and batch
    workouts_json,    \* per request: the page call_hevy_tool returned last
    workouts,         \* argument of deduplicate_workouts
    combined,         \* return value of deduplicate_workouts
    dpc,              \* "call" before, "return" after deduplicate_workouts
    catalog,          \* condition of the exercise template file at import
    TEMPLATE_MAP,     \* module global: template id -> primary muscle group
    TEMPLATE_NAME_MAP, \* module global: lowercased title -> primary muscle group
    workout,          \* argument of _calculate_workout_metrics / _extract_muscle_groups
    metrics,          \* return value of _calculate_workout_metrics, or its exception
    muscle_groups,    \* return value of _extract_muscle_groups
    mpc,              \* "import", "metrics", "muscles", "done" or "raised"
    sessions,         \* session_history that get_exercise_history returns
    plateau,          \* return value of detect_plateaus, or its exception
    ppc,              \* "call" before, "return" after detect_plateaus
    stored,           \* the rows of ctx.deps.user_id in workout_cache
    days,             \* argument of get_workout_analysis
    analysis,         \* return value of get_workout_analysis, or its exception
    apc,              \* "call" before, "return" after get_workout_analysis
    exercises_df_empty, \* analyzer.exercises_df.empty
    tally,            \* muscle_group_counts of the recent exercises
    total_exercises,  \* len(recent_exercises)
    balance,          \* return value of assess_muscle_group_balance
    bpc,              \* "call" before, "return" after assess_muscle_group_balance
    dashboard,        \* return value of get_dashboard_stats
    hpc               \* "call" before, "return" after get_dashboard_stats

storeVars == <<cache, now, pc, kind, user, sync_all, page,
               total_processed, batch, pending, response, lastUpsert,
               workouts_json>>

dedupVars == <<workouts, combined, dpc>>

metricVars == <<catalog, TEMPLATE_MAP, TEMPLATE_NAME_MAP, workout, metrics,
                muscle_groups, mpc>>

plateauVars == <<sessions, plateau, ppc>>

analysisVars == <<stored, days, analysis, apc>>

\* the variables of the read-only reports
balanceVars == <<exercises_df_empty, tally, total_exercises, balance, bpc>>

dashVars == <<dashboard, hpc>>

reportVars == <<analysisVars, balanceVars, dashVars>>

\* the variables of the functions that touch no request and no row
pureVars == <<dedupVars, metricVars, plateauVars, reportVars>>

vars == <<storeVars, pureVars>>

\* ------------------------------------------------ deduplicate_workouts
\* the two rules of the inner loop body, for one Hevy (h_time, h_dur)
\* the threshold written in minutes against a delta in seconds
MutDirectOverlapMinutes(delta) == delta < 30

\* the threshold itself taken for an overlap
MutDirectOverlapInclusive(delta) == delta <= DirectOverlapSeconds

DirectOverlap(delta) == delta < DirectOverlapSeconds

\* the drift accepted only after the hour, not before it
MutTimezoneShiftOneSided(other_dur, h_dur, delta) ==
    /\ Abs(other_dur - h_dur) <= DurationToleranceMinutes
    /\ delta < SameDaySeconds
    /\ delta % HourSeconds < DriftLowSeconds

TimezoneShift(other_dur, h_dur, delta) ==
    /\ Abs(other_dur - h_dur) <= DurationToleranceMinutes
    /\ delta < SameDaySeconds
    /\ LET remainder == delta % HourSeconds
       IN  remainder < DriftLowSeconds \/ remainder > DriftHighSeconds

\* the inner loop left after its first pass: only the first Hevy record is
\* tested
MutIsDuplicateFirstOnly(other, hevy_data) ==
    IF hevy_data = <<>> THEN FALSE
    ELSE LET h_time == Head(hevy_data)[1]
             h_dur == Head(hevy_data)[2]
             other_dur == OrZero(other.duration_minutes)
             delta == Abs(other.workout_date - h_time)
         IN  DirectOverlap(delta) \/ TimezoneShift(other_dur, h_dur, delta)

\* inner `for h_time, h_dur in hevy_data` with its two `break`s
RECURSIVE is_duplicate(_, _)
is_duplicate(other, hevy_data) ==
    IF hevy_data = <<>> THEN FALSE
    ELSE LET h_time == Head(hevy_data)[1]
             h_dur == Head(hevy_data)[2]
             other_dur == OrZero(other.duration_minutes)
             delta == Abs(other.workout_date - h_time)
         IN  IF DirectOverlap(delta) THEN TRUE
             ELSE IF TimezoneShift(other_dur, h_dur, delta) THEN TRUE
             ELSE is_duplicate(other, Tail(hevy_data))

\* a sort that turns records of one date around
RECURSIVE MutInsertDescUnstable(_, _)
MutInsertDescUnstable(w, s) ==
    IF s = <<>> THEN <<w>>
    ELSE IF Head(s).workout_date <= w.workout_date THEN <<w>> \o s
    ELSE <<Head(s)>> \o MutInsertDescUnstable(w, Tail(s))

\* list.sort(key=workout_date, reverse=True): stable, descending
RECURSIVE InsertDesc(_, _)
InsertDesc(w, s) ==
    IF s = <<>> THEN <<w>>
    ELSE IF Head(s).workout_date < w.workout_date THEN <<w>> \o s
    ELSE <<Head(s)>> \o InsertDesc(w, Tail(s))

RECURSIVE SortDesc(_)
SortDesc(s) ==
    IF s = <<>> THEN <<>>
    ELSE InsertDesc(s[Len(s)], SortDesc(SubSeq(s, 1, Len(s) - 1)))

IsHevy(w) == w.source = "hevy"
IsOther(w) == w.source # "hevy"

HevyWorkouts(ws) == SelectSeq(ws, IsHevy)
OtherWorkouts(ws) == SelectSeq(ws, IsOther)

HevyData(hevy_workouts) ==
    [i \in 1..Len(hevy_workouts) |->
        <<hevy_workouts[i].workout_date, OrZero(hevy_workouts[i].duration_minutes)>>]

FilteredOthers(ws) ==
    LET hevy_data == HevyData(HevyWorkouts(ws))
        Keep(o) == ~is_duplicate(o, hevy_data)
    IN  SelectSeq(OtherWorkouts(ws), Keep)

\* the priority of the sources inverted: a Hevy record that matches a kept
\* record of another source is dropped
MutDedupDropsHevy(ws) ==
    LET others == OtherWorkouts(ws)
        Clash(h) == \E i \in 1..Len(others) :
                        is_duplicate(others[i], HevyData(<<h>>))
        Keep(h) == ~Clash(h)
    IN  SortDesc(SelectSeq(HevyWorkouts(ws), Keep) \o others)

deduplicate_workouts(ws) ==
    IF ws = <<>> THEN <<>>
    ELSE IF HevyWorkouts(ws) = <<>> THEN ws
    ELSE SortDesc(HevyWorkouts(ws) \o FilteredOthers(ws))


\* ------------------------------------------------------------ the inputs
Users == {"u1"}
Requests == {"r1", "r2"}

\* raw workouts the Hevy tool can return ('id', 'startTime', 'endTime', 'title')
RemoteWorkouts ==
    { [id |-> i, start_time |-> 0, end_time |-> 3600, title |-> "Push"] : i \in {"w1", "w2"} }
    \cup
    { [id |-> "w1", start_time |-> 18000, end_time |-> 21660, title |-> "Pull"] }

\* workouts that come without 'startTime'/'start_time' or without
\* 'endTime'/'end_time'
MalformedWorkouts ==
    { [id |-> "w2", end_time |-> 3600, title |-> "Push"],
      [id |-> "w2", start_time |-> 0, title |-> "Push"] }

\* one page of get-workouts: at most page_size workouts, in any order
Pages == UNION { [1..n -> RemoteWorkouts \cup MalformedWorkouts] : n \in 0..PageSize }

\* entries AppleHealthParser._parse_workouts produces
AppleEntries ==
    { [source |-> "apple_health", source_workout_id |-> "a1", workout_date |-> 1000,
       title |-> "Strength", duration_minutes |-> Some(60)],
      [source |-> "apple_health", source_workout_id |-> "a1", workout_date |-> 36000,
       title |-> "Walk", duration_minutes |-> None] }

AppleBatches == {<<>>} \cup { <<e>> : e \in AppleEntries }

\* --------------------------------------------- _calculate_workout_metrics
\* workout.get('startTime') or workout.get('start_time') is not None, and the
\* same for the end: otherwise `start_time.replace` raises AttributeError
HasTimestamps(w) == {"start_time", "end_time"} \subseteq DOMAIN w

\* math.floor in the place of int()
MutDurationFloor(start, end) == (end - start) \div 60

\* int(x / 60): Python's int() truncates toward zero
DurationMinutes(start, end) ==
    LET seconds == end - start
    IN  IF seconds >= 0 THEN seconds \div 60 ELSE -((-seconds) \div 60)

\* dict.get(k) and dict.get(k, default): a key that is missing reads as None
\* or as the default, a key that holds null reads as None
Get(d, k) == IF k \in DOMAIN d THEN d[k] ELSE None
GetOr(d, k, default) == IF k \in DOMAIN d THEN d[k] ELSE default

\* weight = set_data.get('weight_kg'); reps = set_data.get('reps', 0)
SetWeight(set_data) == Get(set_data, "weight_kg")
SetReps(set_data) == GetOr(set_data, "reps", Some(0))

\* `weight * reps` with reps None raises TypeError
SetRaises(set_data) == SetWeight(set_data) # None /\ SetReps(set_data) = None

\* `if weight is not None: total_volume_kg += weight * reps`
SetVolume(set_data) ==
    IF SetWeight(set_data) # None
    THEN SetWeight(set_data)[1] * SetReps(set_data)[1]
    ELSE 0

\* `elif reps: bodyweight_reps += reps` (None and 0 are falsy)
SetBodyweightReps(set_data) ==
    IF SetWeight(set_data) = None /\ SetReps(set_data) # None
    THEN SetReps(set_data)[1]
    ELSE 0

\* workout.get('exercises', []) and exercise.get('sets', [])
Exercises(w) == GetOr(w, "exercises", <<>>)
Sets(exercise) == GetOr(exercise, "sets", <<>>)

\* the sets in the order the two nested loops visit them
RECURSIVE AllSets(_)
AllSets(exercises) ==
    IF exercises = <<>> THEN <<>>
    ELSE Sets(Head(exercises)) \o AllSets(Tail(exercises))

RECURSIVE TotalVolume(_)
TotalVolume(sets) ==
    IF sets = <<>> THEN 0 ELSE SetVolume(Head(sets)) + TotalVolume(Tail(sets))

RECURSIVE TotalBodyweightReps(_)
TotalBodyweightReps(sets) ==
    IF sets = <<>> THEN 0
    ELSE SetBodyweightReps(Head(sets)) + TotalBodyweightReps(Tail(sets))

\* the dict the function returns, or the exception that leaves it
calculate_workout_metrics(w) ==
    IF ~HasTimestamps(w) THEN [error |-> "AttributeError"]
    ELSE IF \E i \in 1..Len(AllSets(Exercises(w))) : SetRaises(AllSets(Exercises(w))[i])
    THEN [error |-> "TypeError"]
    ELSE [duration_minutes |-> DurationMinutes(w.start_time, w.end_time),
          total_sets |-> Len(AllSets(Exercises(w))),
          total_volume_kg |-> TotalVolume(AllSets(Exercises(w))),
          bodyweight_reps |-> TotalBodyweightReps(AllSets(Exercises(w))),
          exercise_count |-> Len(Exercises(w))]

\* -------------------------------------------------- the exercise templates
\* templates_list of a readable catalog file
Templates ==
    { [id |-> "t1", title |-> "Squat", primary_muscle_group |-> "legs"],
      [id |-> "t2", title |-> "Bench Press", primary_muscle_group |-> "chest"],
      [id |-> "t3", title |-> "Plank"] }

\* str.lower() on the titles and names in use
Lower(name) ==
    CASE name = "Squat" -> "squat"
      [] name = "Bench Press" -> "bench press"
      [] name = "Bench Press (Barbell)" -> "bench press (barbell)"
      [] name = "Curl (Cable)" -> "curl (cable)"
      [] name = "Plank" -> "plank"
      [] OTHER -> name

\* `"(" in name` and name.split("(")[0].strip(), on lowercased names
HasParen(name) == name \in {"bench press (barbell)", "curl (cable)"}
BeforeParen(name) ==
    CASE name = "bench press (barbell)" -> "bench press"
      [] name = "curl (cable)" -> "curl"
      [] OTHER -> name

\* t.get("primary_muscle_group", "other")
PrimaryGroup(t) == GetOr(t, "primary_muscle_group", "other")

\* {t["id"]: ...} and {t["title"].lower(): ...} over templates_list
IdMap(templates_list) ==
    [i \in { t.id : t \in templates_list } |->
        PrimaryGroup(CHOOSE t \in templates_list : t.id = i)]
NameMap(templates_list) ==
    [n \in { Lower(t.title) : t \in templates_list } |->
        PrimaryGroup(CHOOSE t \in templates_list : Lower(t.title) = n)]

\* ------------------------------------------------ _extract_muscle_groups
\* step 2 of the loop body: the lowercased name, else the name before "("
NameLookup(name, by_name) ==
    IF name \in DOMAIN by_name THEN {by_name[name]}
    ELSE IF HasParen(name) /\ BeforeParen(name) \in DOMAIN by_name
    THEN {by_name[BeforeParen(name)]}
    ELSE {}

\* what one pass of the loop body adds to muscle_groups: step 1 ends the
\* pass (`continue`), step 3 runs after step 2 whatever step 2 found
ExerciseGroups(ex, by_id, by_name) ==
    IF "exercise_template_id" \in DOMAIN ex /\ ex.exercise_template_id \in DOMAIN by_id
    THEN {by_id[ex.exercise_template_id]}
    ELSE NameLookup(Lower(GetOr(ex, "name", "")), by_name)
         \cup (IF "muscle_group" \in DOMAIN ex THEN {ex.muscle_group} ELSE {})

extract_muscle_groups(w, by_id, by_name) ==
    UNION { ExerciseGroups(Exercises(w)[i], by_id, by_name) :
                i \in 1..Len(Exercises(w)) }

\* ------------------------------------------------------ building records
\* sync_hevy_workouts, `record = {...}` for one fetched workout
HevyRecord(u, w) ==
    [user_id |-> u, source |-> "hevy", source_workout_id |-> w.id,
     workout_date |-> w.start_time, title |-> w.title,
     duration_minutes |-> Some(DurationMinutes(w.start_time, w.end_time))]

\* save_workouts, `record = {...}` for one parsed entry
AppleRecord(u, e) ==
    [user_id |-> u, source |-> e.source, source_workout_id |-> e.source_workout_id,
     workout_date |-> e.workout_date, title |-> e.title,
     duration_minutes |-> e.duration_minutes]

HevyRecords(u, ws) == [i \in 1..Len(ws) |-> HevyRecord(u, ws[i])]
AppleRecords(u, es) == [i \in 1..Len(es) |-> AppleRecord(u, es[i])]

\* ------------------------------------------------------ workout_cache
\* a unique constraint on (source, source_workout_id), without the user
MutKeyOfNoUser(r) == <<"any", r.source, r.source_workout_id>>

\* the unique constraint uix_user_source_workout
KeyOf(r) == <<r.user_id, r.source, r.source_workout_id>>
KeysOf(rows) == { KeyOf(r) : r \in rows }
BatchKeys(b) == { KeyOf(b[i]) : i \in 1..Len(b) }

\* the record (the columns a statement supplies) held by a row
RecordOf(row) ==
    [user_id |-> row.user_id, source |-> row.source,
     source_workout_id |-> row.source_workout_id,
     workout_date |-> row.workout_date, title |-> row.title,
     duration_minutes |-> row.duration_minutes]

\* INSERT of a row that meets no conflict: id = uuid4(), the three
\* server_default=func.now() columns
NewRow(rec, id, t) ==
    [id |-> id, user_id |-> rec.user_id, source |-> rec.source,
     source_workout_id |-> rec.source_workout_id,
     workout_date |-> rec.workout_date, title |-> rec.title,
     duration_minutes |-> rec.duration_minutes,
     last_synced |-> t, created_at |-> t, updated_at |-> t]

\* a set_ that leaves out the title column
MutHevySetClauseNoTitle(row, rec, t) ==
    [row EXCEPT !.workout_date = rec.workout_date,
                !.duration_minutes = rec.duration_minutes]

\* a set_ that also resets created_at
MutHevySetClauseCreatedAt(row, rec, t) ==
    [row EXCEPT !.workout_date = rec.workout_date,
                !.title = rec.title,
                !.duration_minutes = rec.duration_minutes,
                !.created_at = t]

\* set_ of sync_hevy_workouts: the data columns; last_synced is not in it, and
\* Column.onupdate is not applied by ON CONFLICT DO UPDATE
HevySetClause(row, rec, t) ==
    [row EXCEPT !.workout_date = rec.workout_date,
                !.title = rec.title,
                !.duration_minutes = rec.duration_minutes]

\* a set_ that also resets created_at
MutAppleSetClauseCreatedAt(row, rec, t) ==
    [row EXCEPT !.workout_date = rec.workout_date,
                !.title = rec.title,
                !.duration_minutes = rec.duration_minutes,
                !.last_synced = t,
                !.created_at = t,
                !.updated_at = t]

\* set_ of save_workouts: the data columns, last_synced and updated_at
AppleSetClause(row, rec, t) ==
    [row EXCEPT !.workout_date = rec.workout_date,
                !.title = rec.title,
                !.duration_minutes = rec.duration_minutes,
                !.last_synced = t,
                !.updated_at = t]

SetClause(path, row, rec, t) ==
    IF path = "hevy" THEN HevySetClause(row, rec, t) ELSE AppleSetClause(row, rec, t)

\* a primary key no row has: uuid4() never repeats a key in use, the least
\* unused number stands for it
FreshId(used) == CHOOSE n \in 1..(Cardinality(used) + 1) : n \notin used

\* a plain INSERT, with no ON CONFLICT clause and no unique constraint
MutPlainInsert(rows, rec, path, t, used) == NewRow(rec, FreshId(used), t)

\* INSERT ... VALUES (one record) ON CONFLICT (user_id, source,
\* source_workout_id) DO UPDATE SET ...: the row the statement writes
UpsertRow(rows, rec, path, t, used) ==
    IF \E r \in rows : KeyOf(r) = KeyOf(rec)
    THEN SetClause(path, CHOOSE r \in rows : KeyOf(r) = KeyOf(rec), rec, t)
    ELSE NewRow(rec, FreshId(used), t)

\* the rows one statement writes for records_to_insert, first to last
RECURSIVE StatementRows(_, _, _, _, _)
StatementRows(rows, records, path, t, used) ==
    IF records = <<>> THEN {}
    ELSE LET w == UpsertRow(rows, Head(records), path, t, used)
         IN  {w} \cup StatementRows(rows, Tail(records), path, t, used \cup {w.id})

\* PostgreSQL refuses a statement that proposes one key twice
\* ("ON CONFLICT DO UPDATE command cannot affect row a second time")
DistinctKeys(b) == Cardinality(BatchKeys(b)) = Len(b)

\* rows after a transaction's writes are committed (rows are replaced by
\* primary key)
Committed(rows, written) ==
    { r \in rows : r.id \notin { w.id : w \in written } } \cup written


\* ------------------------------------------------------------- requests
NoResponse == [status |-> 0]
NoUpsert == [path |-> "none", user_id |-> "none", records |-> <<>>]

UsedIds == { r.id : r \in cache } \cup UNION { { r.id : r \in pending[d] } : d \in Requests }

\* rows another open transaction has written: the statement waits for them
LockedByOthers(c) == UNION { KeysOf(pending[d]) : d \in Requests \ {c} }

\* the route's `except Exception` (HTTPException 500) around the service call
\* detail carries str(e): the tool's error, the database's, or the
\* AttributeError of a record without a timestamp
ServerError(c, cause) ==
    [status |-> 500,
     detail |-> IF kind[c] = "hevy" THEN "Error syncing workouts"
                ELSE "Error parsing Apple Health file",
     cause |-> cause]

\* return value of sync_hevy_workouts as sync_workouts hands it on; the
\* message is the f-string of line 299, in its parts
SyncSummary(n) ==
    [status |-> 200, success |-> TRUE,
     message |-> <<"Successfully synced ", n, " workouts from Hevy via MCP.">>,
     workouts_synced |-> n]

\* return value of save_workouts
SaveSummary(n, msg) == [status |-> 200, total_processed |-> n, message |-> msg]

\* sync_hevy_workouts is entered: total_processed = 0, page = 1
StartSync(c, u, all) ==
    /\ pc[c] = "idle"
    /\ pc' = [pc EXCEPT ![c] = "fetch"]
    /\ kind' = [kind EXCEPT ![c] = "hevy"]
    /\ user' = [user EXCEPT ![c] = u]
    /\ sync_all' = [sync_all EXCEPT ![c] = all]
    /\ page' = [page EXCEPT ![c] = 1]
    /\ total_processed' = [total_processed EXCEPT ![c] = 0]
    /\ workouts_json' = [workouts_json EXCEPT ![c] = <<>>]
    /\ UNCHANGED <<cache, now, batch, pending, response, lastUpsert, pureVars>>

\* an empty page taken for a failure of the tool
MutFetchPageEmptyFails(c, ws) ==
    /\ pc[c] = "fetch"
    /\ workouts_json' = [workouts_json EXCEPT ![c] = ws]
    /\ IF ws = <<>> \/ \E i \in 1..Len(ws) : ~HasTimestamps(ws[i])
       THEN /\ pc' = [pc EXCEPT ![c] = "failed"]
            /\ response' = [response EXCEPT ![c] = ServerError(c, "record")]
            /\ UNCHANGED batch
       ELSE /\ pc' = [pc EXCEPT ![c] = "execute"]
            /\ batch' = [batch EXCEPT ![c] = HevyRecords(user[c], ws)]
            /\ UNCHANGED response
    /\ UNCHANGED <<cache, now, kind, user, sync_all, page, total_processed,
                   pending, lastUpsert, pureVars>>

\* call_hevy_tool("get-workouts") returns the page ws; an empty page leaves
\* the loop, otherwise records_to_insert is built: the first workout without
\* a timestamp raises out of _calculate_workout_metrics and of the call
FetchPage(c, ws) ==
    /\ pc[c] = "fetch"
    /\ workouts_json' = [workouts_json EXCEPT ![c] = ws]
    /\ IF ws = <<>>
       THEN /\ pc' = [pc EXCEPT ![c] = "done"]
            /\ response' = [response EXCEPT ![c] = SyncSummary(total_processed[c])]
            /\ UNCHANGED batch
       ELSE IF \E i \in 1..Len(ws) : ~HasTimestamps(ws[i])
       THEN /\ pc' = [pc EXCEPT ![c] = "failed"]
            /\ response' = [response EXCEPT ![c] = ServerError(c, "record")]
            /\ UNCHANGED batch
       ELSE /\ pc' = [pc EXCEPT ![c] = "execute"]
            /\ batch' = [batch EXCEPT ![c] = HevyRecords(user[c], ws)]
            /\ UNCHANGED response
    /\ UNCHANGED <<cache, now, kind, user, sync_all, page, total_processed,
                   pending, lastUpsert, pureVars>>

\* the whole sync in one transaction: a failed fetch rolls back the pages
\* written before it
MutFetchFailRollback(c) ==
    /\ pc[c] = "fetch"
    /\ pc' = [pc EXCEPT ![c] = "failed"]
    /\ response' = [response EXCEPT ![c] = ServerError(c, "transport")]
    /\ cache' = { r \in cache : ~(r.user_id = user[c] /\ r.source = "hevy") }
    /\ UNCHANGED <<now, kind, user, sync_all, page, total_processed,
                   batch, pending, lastUpsert, workouts_json, pureVars>>

\* call_hevy_tool raises (ValueError / RuntimeError): nothing catches it in
\* sync_hevy_workouts, the route answers 500
FetchFail(c) ==
    /\ pc[c] = "fetch"
    /\ pc' = [pc EXCEPT ![c] = "failed"]
    /\ response' = [response EXCEPT ![c] = ServerError(c, "transport")]
    /\ UNCHANGED <<cache, now, kind, user, sync_all, page, total_processed,
                   batch, pending, lastUpsert, workouts_json, pureVars>>

\* save_workouts is entered with the parsed entries es
StartSave(c, u, es) ==
    /\ pc[c] = "idle"
    /\ kind' = [kind EXCEPT ![c] = "apple_health"]
    /\ user' = [user EXCEPT ![c] = u]
    /\ IF es = <<>>
       THEN /\ pc' = [pc EXCEPT ![c] = "done"]
            /\ response' = [response EXCEPT ![c] = SaveSummary(0, "No workouts to save.")]
            /\ UNCHANGED batch
       ELSE /\ pc' = [pc EXCEPT ![c] = "execute"]
            /\ batch' = [batch EXCEPT ![c] = AppleRecords(u, es)]
            /\ UNCHANGED response
    /\ UNCHANGED <<cache, now, sync_all, page, total_processed, pending,
                   lastUpsert, workouts_json, pureVars>>

\* await db.execute(stmt): the statement runs in the request's transaction,
\* once no other open transaction holds a row of one of its keys (PostgreSQL
\* makes it wait for that transaction to end); func.now() is read here
Execute(c) ==
    /\ pc[c] = "execute"
    /\ DistinctKeys(batch[c])
    /\ BatchKeys(batch[c]) \cap LockedByOthers(c) = {}
    /\ \E t \in {now, Min(now + 1, MaxTime)} :
          /\ now' = t
          /\ pending' = [pending EXCEPT ![c] =
                            StatementRows(cache, batch[c], kind[c], t, UsedIds)]
    /\ pc' = [pc EXCEPT ![c] = "commit"]
    /\ UNCHANGED <<cache, kind, user, sync_all, page, total_processed, batch,
                   response, lastUpsert, workouts_json, pureVars>>

\* one INSERT and commit per record: the records before the failing one stay
MutExecuteFailPartial(c) ==
    /\ pc[c] = "execute"
    /\ pc' = [pc EXCEPT ![c] = "failed"]
    /\ pending' = [pending EXCEPT ![c] = {}]
    /\ response' = [response EXCEPT ![c] = ServerError(c, "database")]
    /\ cache' = Committed(cache, StatementRows(cache, SubSeq(batch[c], 1, Len(batch[c]) - 1),
                                                kind[c], now, UsedIds))
    /\ UNCHANGED <<now, kind, user, sync_all, page, total_processed,
                   batch, lastUpsert, workouts_json, pureVars>>

\* await db.execute(stmt) raises: the statement applies nothing, get_db
\* rolls the session back
ExecuteFail(c) ==
    /\ pc[c] = "execute"
    /\ pc' = [pc EXCEPT ![c] = "failed"]
    /\ pending' = [pending EXCEPT ![c] = {}]
    /\ response' = [response EXCEPT ![c] = ServerError(c, "database")]
    /\ UNCHANGED <<cache, now, kind, user, sync_all, page, total_processed,
                   batch, lastUpsert, workouts_json, pureVars>>

\* one transaction for the whole sync: the commit waits for the last page,
\* and the next fetch starts with the page's rows still uncommitted
MutCommitAfterLastPage(c) ==
    /\ pc[c] = "commit"
    /\ IF kind[c] = "hevy" /\ sync_all[c] /\ Len(batch[c]) = PageSize
       THEN /\ pc' = [pc EXCEPT ![c] = "fetch"]
            /\ page' = [page EXCEPT ![c] = Min(page[c] + 1, MaxPage)]
            /\ total_processed' = [total_processed EXCEPT ![c] =
                                      Min(total_processed[c] + Len(batch[c]), MaxPage * PageSize)]
            /\ UNCHANGED <<cache, pending, response, lastUpsert>>
       ELSE /\ pc' = [pc EXCEPT ![c] = "done"]
            /\ cache' = Committed(cache, pending[c])
            /\ pending' = [pending EXCEPT ![c] = {}]
            /\ lastUpsert' = [path |-> kind[c], user_id |-> user[c], records |-> batch[c]]
            /\ response' = [response EXCEPT ![c] =
                               IF kind[c] = "hevy"
                               THEN SyncSummary(Min(total_processed[c] + Len(batch[c]),
                                                    MaxPage * PageSize))
                               ELSE SaveSummary(Len(batch[c]), "Workouts saved with UPSERT logic.")]
            /\ total_processed' = [total_processed EXCEPT ![c] =
                                      IF kind[c] = "hevy"
                                      THEN Min(total_processed[c] + Len(batch[c]), MaxPage * PageSize)
                                      ELSE total_processed[c]]
            /\ UNCHANGED page
    /\ UNCHANGED <<now, kind, user, sync_all, batch, workouts_json, pureVars>>

\* the loop goes on after a short page and ends at an empty one only
MutCommitContinueOnShortPage(c) ==
    /\ pc[c] = "commit"
    /\ cache' = Committed(cache, pending[c])
    /\ pending' = [pending EXCEPT ![c] = {}]
    /\ lastUpsert' = [path |-> kind[c], user_id |-> user[c], records |-> batch[c]]
    /\ IF kind[c] = "hevy"
       THEN LET total == Min(total_processed[c] + Len(batch[c]), MaxPage * PageSize)
            IN  /\ total_processed' = [total_processed EXCEPT ![c] = total]
                /\ IF ~sync_all[c]
                   THEN /\ pc' = [pc EXCEPT ![c] = "done"]
                        /\ response' = [response EXCEPT ![c] = SyncSummary(total)]
                        /\ UNCHANGED page
                   ELSE /\ pc' = [pc EXCEPT ![c] = "fetch"]
                        /\ page' = [page EXCEPT ![c] = Min(page[c] + 1, MaxPage)]
                        /\ UNCHANGED response
       ELSE /\ pc' = [pc EXCEPT ![c] = "done"]
            /\ response' = [response EXCEPT ![c] =
                               SaveSummary(Len(batch[c]), "Workouts saved with UPSERT logic.")]
            /\ UNCHANGED <<page, total_processed>>
    /\ UNCHANGED <<now, kind, user, sync_all, batch, workouts_json, pureVars>>

\* await db.commit(), then the rest of the loop body (sync) or the return
\* (save)
Commit(c) ==
    /\ pc[c] = "commit"
    /\ cache' = Committed(cache, pending[c])
    /\ pending' = [pending EXCEPT ![c] = {}]
    /\ lastUpsert' = [path |-> kind[c], user_id |-> user[c], records |-> batch[c]]
    /\ IF kind[c] = "hevy"
       THEN LET total == Min(total_processed[c] + Len(batch[c]), MaxPage * PageSize)
            IN  /\ total_processed' = [total_processed EXCEPT ![c] = total]
                /\ IF ~sync_all[c] \/ Len(batch[c]) < PageSize
                   THEN /\ pc' = [pc EXCEPT ![c] = "done"]
                        /\ response' = [response EXCEPT ![c] = SyncSummary(total)]
                        /\ UNCHANGED page
                   ELSE /\ pc' = [pc EXCEPT ![c] = "fetch"]
                        /\ page' = [page EXCEPT ![c] = Min(page[c] + 1, MaxPage)]
                        /\ UNCHANGED response
       ELSE /\ pc' = [pc EXCEPT ![c] = "done"]
            /\ response' = [response EXCEPT ![c] =
                               SaveSummary(Len(batch[c]), "Workouts saved with UPSERT logic.")]
            /\ UNCHANGED <<page, total_processed>>
    /\ UNCHANGED <<now, kind, user, sync_all, batch, workouts_json, pureVars>>

\* await db.commit() raises: the transaction is rolled back
CommitFail(c) ==
    /\ pc[c] = "commit"
    /\ pc' = [pc EXCEPT ![c] = "failed"]
    /\ pending' = [pending EXCEPT ![c] = {}]
    /\ response' = [response EXCEPT ![c] = ServerError(c, "database")]
    /\ UNCHANGED <<cache, now, kind, user, sync_all, page, total_processed,
                   batch, lastUpsert, workouts_json, pureVars>>

\* the response is sent, get_db closes the session; the slot serves the
\* next request
Finish(c) ==
    /\ pc[c] \in {"done", "failed"}
    /\ pc' = [pc EXCEPT ![c] = "idle"]
    /\ kind' = [kind EXCEPT ![c] = "none"]
    /\ user' = [user EXCEPT ![c] = "none"]
    /\ sync_all' = [sync_all EXCEPT ![c] = FALSE]
    /\ page' = [page EXCEPT ![c] = 1]
    /\ total_processed' = [total_processed EXCEPT ![c] = 0]
    /\ batch' = [batch EXCEPT ![c] = <<>>]
    /\ response' = [response EXCEPT ![c] = NoResponse]
    /\ workouts_json' = [workouts_json EXCEPT ![c] = <<>>]
    /\ UNCHANGED <<cache, now, pending, lastUpsert, pureVars>>

InitStore ==
    /\ cache = {}
    /\ now = 0
    /\ pc = [c \in Requests |-> "idle"]
    /\ kind = [c \in Requests |-> "none"]
    /\ user = [c \in Requests |-> "none"]
    /\ sync_all = [c \in Requests |-> FALSE]
    /\ page = [c \in Requests |-> 1]
    /\ total_processed = [c \in Requests |-> 0]
    /\ batch = [c \in Requests |-> <<>>]
    /\ pending = [c \in Requests |-> {}]
    /\ response = [c \in Requests |-> NoResponse]
    /\ lastUpsert = NoUpsert
    /\ workouts_json = [c \in Requests |-> <<>>]

\* no call of detect_plateaus under way
PlateauIdle ==
    /\ sessions = <<>>
    /\ plateau = None
    /\ ppc = "return"

\* no call of assess_muscle_group_balance under way
BalanceIdle ==
    /\ exercises_df_empty = TRUE
    /\ tally = <<>>
    /\ total_exercises = 0
    /\ balance = None
    /\ bpc = "return"

\* no call of get_dashboard_stats under way
DashIdle ==
    /\ dashboard = None
    /\ hpc = "return"

\* no report under way
ReportsIdle ==
    /\ stored = {}
    /\ days = 0
    /\ analysis = None
    /\ apc = "return"
    /\ BalanceIdle
    /\ DashIdle

\* no call of the metric functions under way
MetricsIdle ==
    /\ catalog = "valid"
    /\ TEMPLATE_MAP = IdMap(Templates)
    /\ TEMPLATE_NAME_MAP = NameMap(Templates)
    /\ workout = [start_time |-> 0, end_time |-> 0]
    /\ metrics = None
    /\ muscle_groups = {}
    /\ mpc = "done"

Init ==
    /\ InitStore
    /\ workouts = <<>>
    /\ combined = <<>>
    /\ dpc = "return"
    /\ MetricsIdle
    /\ PlateauIdle
    /\ ReportsIdle

\* one request at a time: any sequence of syncs and saves
Next ==
    \/ \E u \in Users, all \in BOOLEAN : StartSync("r1", u, all)
    \/ \E ws \in Pages : FetchPage("r1", ws)
    \/ FetchFail("r1")
    \/ \E u \in Users, es \in AppleBatches : StartSave("r1", u, es)
    \/ Execute("r1")
    \/ ExecuteFail("r1")
    \/ Commit("r1")
    \/ CommitFail("r1")
    \/ Finish("r1")

Spec == Init /\ [][Next]_vars

\* two client sessions at once, each through the routes: POST /workouts/sync
\* calls sync_hevy_workouts without sync_all, so one page per call
ConcPages == { ws \in Pages : Len(ws) <= 1 /\ \A i \in 1..Len(ws) : ws[i].id = "w1" }

ConcNext ==
    \/ \E c \in Requests, u \in Users : StartSync(c, u, FALSE)
    \/ \E c \in Requests, ws \in ConcPages : FetchPage(c, ws)
    \/ \E c \in Requests : FetchFail(c)
    \/ \E c \in Requests, u \in Users, es \in AppleBatches : StartSave(c, u, es)
    \/ \E c \in Requests : Execute(c)
    \/ \E c \in Requests : ExecuteFail(c)
    \/ \E c \in Requests : Commit(c)
    \/ \E c \in Requests : CommitFail(c)
    \/ \E c \in Requests : Finish(c)

ConcSpec == Init /\ [][ConcNext]_vars

\* two users in turn, one request at a time; each sync gets one page holding
\* at most the workout w1, in one of its two versions
BothUsers == {"u1", "u2"}

FramePages == { ws \in Pages : Len(ws) <= 1 /\ \A i \in 1..Len(ws) : ws[i].id = "w1" }

FrameNext ==
    \/ \E u \in BothUsers : StartSync("r1", u, FALSE)
    \/ \E ws \in FramePages : FetchPage("r1", ws)
    \/ FetchFail("r1")
    \/ \E u \in BothUsers, es \in AppleBatches : StartSave("r1", u, es)
    \/ Execute("r1")
    \/ ExecuteFail("r1")
    \/ Commit("r1")
    \/ CommitFail("r1")
    \/ Finish("r1")

FrameSpec == Init /\ [][FrameNext]_vars

\* one call of sync_hevy_workouts that is never starved: the event loop runs
\* the coroutine whenever its await has completed
SyncNext ==
    \/ \E u \in Users, all \in BOOLEAN : StartSync("r1", u, all)
    \/ \E ws \in Pages : FetchPage("r1", ws)
    \/ FetchFail("r1")
    \/ Execute("r1")
    \/ ExecuteFail("r1")
    \/ Commit("r1")
    \/ CommitFail("r1")

SyncFairSpec == Init /\ [][SyncNext]_vars /\ WF_vars(SyncNext)

\* --------------------------------------- deduplicate_workouts on its own
DedupDates == {0, 1799, 1800, 19799, 86400}

DedupRecords ==
    { [source |-> "hevy", workout_date |-> d, duration_minutes |-> Some(m)] :
        d \in DedupDates, m \in {60, 63} }
    \cup
    { [source |-> "apple_health", workout_date |-> d, duration_minutes |-> m] :
        d \in DedupDates, m \in {None, Some(61), Some(64)} }

DedupInputs == UNION { [1..n -> DedupRecords] : n \in 0..MaxLen }

InitDedup ==
    /\ InitStore
    /\ workouts \in DedupInputs
    /\ combined = <<>>
    /\ dpc = "call"
    /\ MetricsIdle
    /\ PlateauIdle
    /\ ReportsIdle

CallDedup ==
    /\ dpc = "call"
    /\ combined' = deduplicate_workouts(workouts)
    /\ dpc' = "return"
    /\ UNCHANGED <<workouts, storeVars, metricVars, plateauVars, reportVars>>

NextDedup == CallDedup

DedupSpec == InitDedup /\ [][NextDedup]_vars

\* lists for the questions of order: Hevy records at three instants, and
\* records of another source that match one of them, none or several
OrderRecords ==
    { [source |-> "hevy", workout_date |-> d, duration_minutes |-> Some(m)] :
        d \in {0, 19799, 86400}, m \in {60, 63} }
    \cup
    { [source |-> "apple_health", workout_date |-> d, duration_minutes |-> m] :
        d \in {1799, 1800}, m \in {None, Some(61), Some(64)} }

InitOrder ==
    /\ InitStore
    /\ \E n \in 0..MaxLen : workouts \in [1..n -> OrderRecords]
    /\ combined = <<>>
    /\ dpc = "call"
    /\ MetricsIdle
    /\ PlateauIdle
    /\ ReportsIdle

OrderSpec == InitOrder /\ [][NextDedup]_vars

\* ------------------------- the template catalog and the metric functions
\* what the import of workout_service.py finds at the template path
Catalogs == {"valid", "missing", "unreadable", "other_format"}

StartTimes == {0, 90}
EndTimes == {0, 30, 3600, 3690}

\* workouts without exercises, with and without their timestamps
TimingWorkouts ==
    { [start_time |-> st, end_time |-> en] : st \in StartTimes, en \in EndTimes }
    \cup { [start_time |-> st] : st \in StartTimes }
    \cup { [end_time |-> en] : en \in EndTimes }

\* the sets of an exercise as Hevy sends them: weight_kg and reps each a
\* number, null or (reps) left out
SetTypes ==
    { [weight_kg |-> wt, reps |-> rp] :
        wt \in {None, Some(100)}, rp \in {None, Some(0), Some(5), Some(10)} }
    \cup { [weight_kg |-> wt] : wt \in {None, Some(100)} }

SetLists == UNION { [1..n -> SetTypes] : n \in 0..MaxSets }

\* one exercise with up to MaxSets sets, or up to MaxExercises exercises with
\* one set each
SetWorkouts ==
    { [start_time |-> 0, end_time |-> 3600, exercises |-> << [sets |-> ss] >>] :
        ss \in SetLists }
    \cup
    { [start_time |-> 0, end_time |-> 3600,
       exercises |-> [i \in 1..n |-> [sets |-> << f[i] >>]]] :
        n \in 0..MaxExercises, f \in [1..MaxExercises -> SetTypes] }

\* exercises as far as _extract_muscle_groups reads them
ExerciseTypes ==
    UNION { { [name |-> nm], [name |-> nm, muscle_group |-> "arms"],
              [name |-> nm, exercise_template_id |-> tid],
              [name |-> nm, exercise_template_id |-> tid, muscle_group |-> "arms"] } :
            nm \in {"Bench Press", "Bench Press (Barbell)", "Curl (Cable)"},
            tid \in {"t1", "tx"} }
    \cup { [muscle_group |-> "arms"], [exercise_template_id |-> "t1"] }

MuscleWorkouts ==
    { [start_time |-> 0, end_time |-> 3600, exercises |-> es] :
        es \in UNION { [1..n -> ExerciseTypes] : n \in 0..MaxExercises } }

MetricInputs == TimingWorkouts \cup SetWorkouts \cup MuscleWorkouts

\* the import raises when the catalog cannot be loaded
MutLoadTemplatesFatal ==
    /\ mpc = "import"
    /\ IF catalog = "valid"
       THEN /\ TEMPLATE_MAP' = IdMap(Templates)
            /\ TEMPLATE_NAME_MAP' = NameMap(Templates)
            /\ mpc' = "metrics"
       ELSE /\ mpc' = "raised"
            /\ UNCHANGED <<TEMPLATE_MAP, TEMPLATE_NAME_MAP>>
    /\ UNCHANGED <<catalog, workout, metrics, muscle_groups, storeVars, dedupVars, plateauVars,
                   reportVars>>

\* the module-level try/except of workout_service.py: a file that is there
\* and holds the templates fills both maps; a file that is not there, one
\* that json.load rejects, and one of another shape leave both maps empty,
\* and the import goes on
LoadTemplates ==
    /\ mpc = "import"
    /\ IF catalog = "valid"
       THEN /\ TEMPLATE_MAP' = IdMap(Templates)
            /\ TEMPLATE_NAME_MAP' = NameMap(Templates)
       ELSE /\ TEMPLATE_MAP' = IdMap({})
            /\ TEMPLATE_NAME_MAP' = NameMap({})
    /\ mpc' = "metrics"
    /\ UNCHANGED <<catalog, workout, metrics, muscle_groups, storeVars, dedupVars, plateauVars,
                   reportVars>>

\* metrics = _calculate_workout_metrics(workout), as the sync loop calls it
CalculateMetrics ==
    /\ mpc = "metrics"
    /\ metrics' = calculate_workout_metrics(workout)
    /\ mpc' = IF "error" \in DOMAIN calculate_workout_metrics(workout)
              THEN "raised" ELSE "muscles"
    /\ UNCHANGED <<catalog, TEMPLATE_MAP, TEMPLATE_NAME_MAP, workout,
                   muscle_groups, storeVars, dedupVars, plateauVars, reportVars>>

\* muscle_groups = _extract_muscle_groups(workout)
ExtractMuscleGroups ==
    /\ mpc = "muscles"
    /\ muscle_groups' = extract_muscle_groups(workout, TEMPLATE_MAP, TEMPLATE_NAME_MAP)
    /\ mpc' = "done"
    /\ UNCHANGED <<catalog, TEMPLATE_MAP, TEMPLATE_NAME_MAP, workout,
                   metrics, storeVars, dedupVars, plateauVars, reportVars>>

InitMetrics ==
    /\ InitStore
    /\ workouts = <<>>
    /\ combined = <<>>
    /\ dpc = "return"
    /\ catalog \in Catalogs
    /\ TEMPLATE_MAP = IdMap({})
    /\ TEMPLATE_NAME_MAP = NameMap({})
    /\ workout \in MetricInputs
    /\ metrics = None
    /\ muscle_groups = {}
    /\ mpc = "import"
    /\ PlateauIdle
    /\ ReportsIdle

NextMetrics ==
    \/ LoadTemplates
    \/ CalculateMetrics
    \/ ExtractMuscleGroups

MetricSpec == InitMetrics /\ [][NextMetrics]_vars

\* ------------------------------------------------------- detect_plateaus
\* dates are hours, weights are max_weight_lbs
\* sessions.sort(key=lambda x: x["date"]): stable, ascending
RECURSIVE InsertAsc(_, _)
InsertAsc(x, s) ==
    IF s = <<>> THEN <<x>>
    ELSE IF x.date < Head(s).date THEN <<x>> \o s
    ELSE <<Head(s)>> \o InsertAsc(x, Tail(s))

RECURSIVE SortAsc(_)
SortAsc(s) ==
    IF s = <<>> THEN <<>>
    ELSE InsertAsc(s[Len(s)], SortAsc(SubSeq(s, 1, Len(s) - 1)))

\* sessions[-5:]
RecentSessions(s) ==
    IF Len(s) <= WindowSessions THEN s
    ELSE SubSeq(s, Len(s) - WindowSessions + 1, Len(s))

\* max(weights)
MaxWeight(recent) ==
    CHOOSE m \in { recent[i].max_weight_lbs : i \in 1..Len(recent) } :
        \A i \in 1..Len(recent) : recent[i].max_weight_lbs <= m

\* first_weight * 1.025 is a product of doubles, and 1.025 is not a double:
\* 200 * 1.025 evaluates to 204.99999999999997.  Of the weights in use, 200 is
\* the one whose product is a weight one can lift and comes out below it.
ProductBelowExact == {200}

\* is_flat = last_weight <= first_weight * 1.025
is_flat(first_weight, last_weight) ==
    IF last_weight * PerMille = first_weight * FlatPerMille
    THEN first_weight \notin ProductBelowExact
    ELSE last_weight * PerMille < first_weight * FlatPerMille

\* (datetime.fromisoformat(dates[-1]) - datetime.fromisoformat(dates[0])).days
DaysStuck(recent) == (recent[Len(recent)].date - recent[1].date) \div HoursPerDay

\* the dict detect_plateaus returns (its status), or the exception raised
\* while the dict is built: growth_percentage divides by first_weight
detect_plateaus(history) ==
    IF Len(history) < MinSessions THEN [status |-> "INSUFFICIENT_DATA"]
    ELSE LET recent == RecentSessions(SortAsc(history))
             first_weight == recent[1].max_weight_lbs
             last_weight == recent[Len(recent)].max_weight_lbs
             is_stuck == last_weight < MaxWeight(recent)
             is_plateau == (is_flat(first_weight, last_weight) \/ is_stuck)
                           /\ DaysStuck(recent) > MinPlateauDays
         IN  IF first_weight = 0 THEN [error |-> "ZeroDivisionError"]
             ELSE [status |-> IF is_plateau THEN "PLATEAU_DETECTED" ELSE "PROGRESSING"]

\* max weights and the hours between consecutive sessions
SessionWeights == {0, 200, 205, 220}
SessionGaps == {84, 90, 120}

\* n sessions in date order, one every gap hours
History(n, gap, weight) ==
    [i \in 1..n |-> [date |-> (i - 1) * gap, max_weight_lbs |-> weight[i]]]

\* the two sequences the plateau rule is illustrated with, over 20 days
ExampleHistories ==
    { History(5, 120, <<200, 202, 201, 200, 199>>),
      History(5, 120, <<200, 205, 210, 215, 220>>) }

\* h is one of the histories the rule is run on: an example, or up to
\* MaxSessions sessions with any of the weights at one of the gaps
Histories(h) ==
    \/ h \in ExampleHistories
    \/ \E n \in 0..MaxSessions, gap \in SessionGaps :
          \E weight \in [1..n -> SessionWeights] : h = History(n, gap, weight)

InitPlateau ==
    /\ InitStore
    /\ workouts = <<>>
    /\ combined = <<>>
    /\ dpc = "return"
    /\ MetricsIdle
    /\ ReportsIdle
    /\ Histories(sessions)
    /\ plateau = None
    /\ ppc = "call"

CallDetectPlateaus ==
    /\ ppc = "call"
    /\ plateau' = detect_plateaus(sessions)
    /\ ppc' = "return"
    /\ UNCHANGED <<sessions, storeVars, dedupVars, metricVars, reportVars>>

NextPlateau == CallDetectPlateaus

PlateauSpec == InitPlateau /\ [][NextPlateau]_vars

\* --------------------------------------------------- get_workout_analysis
\* datetime.now(UTC).date(), as a day number; instants are seconds
Today == 40

\* the instant a date stands for when it is compared with a timestamp
\* (its midnight), and datetime.date()
Midnight(day) == day * DaySeconds
DateOf(t) == t \div DaySeconds

\* SELECT ... WHERE workout_date >= cutoff_date ORDER BY workout_date ASC,
\* over the user's rows (rows of one instant come in an order this report
\* does not read)
RECURSIVE AscendingByDate(_)
AscendingByDate(S) ==
    IF S = {} THEN <<>>
    ELSE LET m == CHOOSE x \in S : \A y \in S : x.workout_date <= y.workout_date
         IN  <<m>> \o AscendingByDate(S \ {m})

Since(rows, cutoff_date) == { r \in rows : r.workout_date >= Midnight(cutoff_date) }

\* round(n / d, 1) in tenths, for n >= 0 and d > 0: to the nearest tenth,
\* a tie to the even one
RoundTenths(n, d) ==
    LET q == (10 * n) \div d
        r == (10 * n) % d
    IN  IF 2 * r < d THEN q
        ELSE IF 2 * r > d THEN q + 1
        ELSE IF q % 2 = 0 THEN q ELSE q + 1

\* max(gaps) if gaps else 0, gaps the day differences of consecutive rows
LongestGap(ws) ==
    IF Len(ws) < 2 THEN 0
    ELSE LET gaps == { DateOf(ws[i].workout_date) - DateOf(ws[i - 1].workout_date) :
                          i \in 2..Len(ws) }
         IN  CHOOSE g \in gaps : \A h \in gaps : h <= g

\* the dict get_workout_analysis returns for the rows ws of its query (the
\* counts, the frequency in tenths of a workout per week, the longest gap
\* and the date range), or the exception that leaves it:
\* workouts_per_week = total_workouts / (days / 7) divides by zero for days = 0
get_workout_analysis(d, ws) ==
    IF ws = <<>>
    THEN [period_analyzed |-> d, total_workouts |-> 0, message |-> "No workouts found"]
    ELSE IF d = 0 THEN [error |-> "ZeroDivisionError"]
    ELSE [period_analyzed |-> d,
          total_workouts |-> Len(ws),
          workouts_per_week |-> RoundTenths(Len(ws) * DaysPerWeek, d),
          longest_gap_days |-> LongestGap(ws),
          date_range |-> <<ws[1].workout_date, ws[Len(ws)].workout_date>>]

\* rows a user's cache can hold: a Hevy session of today and the wearable's
\* record of it ten minutes later, a Hevy session three days ago and a walk
\* of that evening, a Hevy session ending ten minutes before the midnight six
\* days ago with the wearable's record of it five minutes after that
\* midnight, and a walk 35 days ago
StoredRows ==
    { [source |-> "hevy", workout_date |-> Midnight(Today) + 36000,
       duration_minutes |-> Some(60)],
      [source |-> "apple_health", workout_date |-> Midnight(Today) + 36600,
       duration_minutes |-> Some(61)],
      [source |-> "hevy", workout_date |-> Midnight(Today - 3) + 36000,
       duration_minutes |-> Some(60)],
      [source |-> "apple_health", workout_date |-> Midnight(Today - 3) + 70000,
       duration_minutes |-> None],
      [source |-> "hevy", workout_date |-> Midnight(Today - 6) - 600,
       duration_minutes |-> Some(45)],
      [source |-> "apple_health", workout_date |-> Midnight(Today - 6) + 300,
       duration_minutes |-> Some(46)],
      [source |-> "apple_health", workout_date |-> Midnight(Today - 35) + 30000,
       duration_minutes |-> Some(30)] }

AnalysisDays == {0, 7, 30}

InitAnalysis ==
    /\ InitStore
    /\ workouts = <<>>
    /\ combined = <<>>
    /\ dpc = "return"
    /\ MetricsIdle
    /\ PlateauIdle
    /\ BalanceIdle
    /\ DashIdle
    /\ stored \in SUBSET StoredRows
    /\ days \in AnalysisDays
    /\ analysis = None
    /\ apc = "call"

CallWorkoutAnalysis ==
    /\ apc = "call"
    /\ analysis' = get_workout_analysis(days, AscendingByDate(Since(stored, Today - days)))
    /\ apc' = "return"
    /\ UNCHANGED <<stored, days, storeVars, dedupVars, metricVars, plateauVars, balanceVars,
                   dashVars>>

NextAnalysis == CallWorkoutAnalysis

AnalysisSpec == InitAnalysis /\ [][NextAnalysis]_vars

\* the agent's tools, one call of one tool at a time
InitTools == InitAnalysis \/ InitPlateau

NextTools == NextAnalysis \/ NextPlateau

ToolSpec == InitTools /\ [][NextTools]_vars

\* ----------------------------------------------- assess_muscle_group_balance
\* ideal_ranges, in percent
IdealRanges ==
    [chest |-> <<8, 15>>, back |-> <<12, 20>>, shoulders |-> <<8, 15>>,
     arms |-> <<10, 18>>, legs |-> <<20, 30>>, core |-> <<5, 12>>,
     glutes |-> <<8, 15>>]

MuscleGroups == DOMAIN IdealRanges

\* percentages are kept in tenths of a percent:
\* round((count / total_exercises) * 100, 1)
Percentage(count, total) == RoundTenths(count * 100, total)

\* muscle_group_percentages.get(muscle_group, 0)
CurrentPct(counts, total, g) ==
    IF total = 0 \/ counts[g] = 0 THEN 0 ELSE Percentage(counts[g], total)

\* chest% + shoulders% and back% * 1.3 are doubles.  Where the two are equal
\* as numbers, the doubles need not be: 12.7 + 36.7 evaluates to
\* 49.400000000000006 and 38.0 * 1.3 to 49.4.  These are the percentages in
\* use (chest, shoulders, back, in tenths) at which the sum comes out above.
SumAboveExact == { <<127, 367, 380>>, <<367, 127, 380>> }

\* push_muscles > pull_muscles * 1.3
push_pull_imbalance(chest, shoulders, back) ==
    IF (chest + shoulders) * 10 = back * 13
    THEN <<chest, shoulders, back>> \in SumAboveExact
    ELSE (chest + shoulders) * 10 > back * 13

\* the entry the loop over ideal_ranges appends for one group, if any
Imbalance(g, pct) ==
    LET min_pct == IdealRanges[g][1] * 10
        max_pct == IdealRanges[g][2] * 10
    IN  IF pct < min_pct
        THEN { [muscle_group |-> g, type |-> "undertrained", current_percentage |-> pct,
                deficit |-> min_pct - pct] }
        ELSE IF pct > max_pct
        THEN { [muscle_group |-> g, type |-> "overtrained", current_percentage |-> pct,
                excess |-> pct - max_pct] }
        ELSE {}

\* the dict assess_muscle_group_balance returns: the distribution, the
\* imbalance details and whether the push/pull recommendation is given
assess_muscle_group_balance(df_empty, counts, total) ==
    IF df_empty THEN [error |-> "No exercise data available for balance analysis"]
    ELSE LET pct == [g \in MuscleGroups |-> CurrentPct(counts, total, g)]
         IN  [total_exercises_analyzed |-> total,
              muscle_group_distribution |-> pct,
              imbalance_details |-> UNION { Imbalance(g, pct[g]) : g \in MuscleGroups },
              push_pull |-> push_pull_imbalance(pct.chest, pct.shoulders, pct.back)]

\* exercises of the last 90 days per muscle group
PushPullCounts == {0, 2, 6, 10, 29, 30}

Tallies ==
    [chest : PushPullCounts, shoulders : PushPullCounts, back : PushPullCounts,
     legs : {0, 5}, arms : {0, 3}, core : {0, 2}, glutes : {0, 2}]

\* exercises of a group outside the table
OtherCounts == {0, 1}

Sum(counts) ==
    counts.chest + counts.shoulders + counts.back + counts.legs + counts.arms
        + counts.core + counts.glutes

InitBalance ==
    /\ InitStore
    /\ workouts = <<>>
    /\ combined = <<>>
    /\ dpc = "return"
    /\ MetricsIdle
    /\ PlateauIdle
    /\ stored = {}
    /\ days = 0
    /\ analysis = None
    /\ apc = "return"
    /\ tally \in Tallies
    /\ \E other \in OtherCounts : total_exercises = Sum(tally) + other
    /\ exercises_df_empty \in BOOLEAN
    /\ exercises_df_empty => total_exercises = 0
    /\ balance = None
    /\ bpc = "call"
    /\ DashIdle

CallAssessBalance ==
    /\ bpc = "call"
    /\ balance' = assess_muscle_group_balance(exercises_df_empty, tally, total_exercises)
    /\ bpc' = "return"
    /\ UNCHANGED <<exercises_df_empty, tally, total_exercises, storeVars, dedupVars,
                   metricVars, plateauVars, analysisVars, dashVars>>

NextBalance == CallAssessBalance

BalanceSpec == InitBalance /\ [][NextBalance]_vars


\* ------------------------------------------------- get_dashboard_stats
\* result.scalars().all() handed to deduplicate_workouts, as the set of the
\* records it returns: the query has no ORDER BY, and the route reads the
\* result by len(), sum(), max() and set() only
DedupRows(rows) ==
    LET out == deduplicate_workouts(AscendingByDate(rows))
    IN  { out[i] : i \in 1..Len(out) }

\* the three queries: workout_date >= today - 6 days, >= today - 90 days,
\* and < today - 14 days AND >= today - 28 days
WeekDays == 6
MonthDays == 90
TrendDays == 14
ThisWeek(rows) == Since(rows, Today - WeekDays)
ThisQuarter(rows) == Since(rows, Today - MonthDays)
Previous14(rows) ==
    { r \in rows : /\ r.workout_date < Midnight(Today - TrendDays)
                   /\ r.workout_date >= Midnight(Today - 2 * TrendDays) }

\* sum(w.duration_minutes or 0 for w in ...)
RECURSIVE TotalMinutes(_)
TotalMinutes(S) ==
    IF S = {} THEN 0
    ELSE LET w == CHOOSE x \in S : TRUE
         IN  OrZero(w.duration_minutes) + TotalMinutes(S \ {w})

\* the parts of the response that come from the three reconciled queries
get_dashboard_stats(rows) ==
    LET week_workouts == DedupRows(ThisWeek(rows))
        month_workouts_ == DedupRows(ThisQuarter(rows))
        last_14_days == { w \in month_workouts_ :
                            DateOf(w.workout_date) >= Today - TrendDays }
        prev_14_days == DedupRows(Previous14(rows))
    IN  [ workouts |-> week_workouts,
          month_workouts |-> month_workouts_,
          prev_14_days |-> prev_14_days,
          workouts_this_week |-> Cardinality(week_workouts),
          active_days |-> Cardinality({ DateOf(w.workout_date) : w \in month_workouts_ }),
          curr_metric |-> TotalMinutes(last_14_days),
          prev_metric |-> TotalMinutes(prev_14_days) ]

\* rows of TEST_USER_ID: a session logged by both sources inside this week,
\* one across the start of each of the three windows and one across the end
\* of the previous-14-days window, and a walk no Hevy record matches
BoundaryPair(day, first, second, minutes) ==
    { [source |-> first, workout_date |-> Midnight(day) - 600,
       duration_minutes |-> Some(minutes)],
      [source |-> second, workout_date |-> Midnight(day) + 300,
       duration_minutes |-> Some(minutes + 1)] }

DashRows ==
    { [source |-> "hevy", workout_date |-> Midnight(Today) + 36000,
       duration_minutes |-> Some(60)],
      [source |-> "apple_health", workout_date |-> Midnight(Today) + 36600,
       duration_minutes |-> Some(61)],
      [source |-> "apple_health", workout_date |-> Midnight(Today - 3) + 70000,
       duration_minutes |-> None] }
    \cup BoundaryPair(Today - WeekDays, "hevy", "apple_health", 45)
    \cup BoundaryPair(Today - TrendDays, "apple_health", "hevy", 50)
    \cup BoundaryPair(Today - 2 * TrendDays, "hevy", "apple_health", 40)
    \cup BoundaryPair(Today - MonthDays, "hevy", "apple_health", 30)

InitDash ==
    /\ InitStore
    /\ workouts = <<>>
    /\ combined = <<>>
    /\ dpc = "return"
    /\ MetricsIdle
    /\ PlateauIdle
    /\ BalanceIdle
    /\ stored \in SUBSET DashRows
    /\ days = 0
    /\ analysis = None
    /\ apc = "return"
    /\ dashboard = None
    /\ hpc = "call"

CallDashboardStats ==
    /\ hpc = "call"
    /\ dashboard' = get_dashboard_stats(stored)
    /\ hpc' = "return"
    /\ UNCHANGED <<storeVars, dedupVars, metricVars, plateauVars, analysisVars, balanceVars>>

NextDash == CallDashboardStats

DashSpec == InitDash /\ [][NextDash]_vars


\* ============================================================ properties
Count(s, w) == Cardinality({ i \in 1..Len(s) : s[i] = w })
Elems(s) == { s[i] : i \in 1..Len(s) }

\* C1: every record of the authoritative source 'hevy' in the input of
\* deduplicate_workouts is in its output, as often as in the input, whatever
\* the other records are; the output holds no record the input lacks.
C1_AuthoritativeNeverDiscarded ==
    dpc = "return" =>
        /\ \A w \in Elems(workouts) :
              w.source = "hevy" => Count(combined, w) = Count(workouts, w)
        /\ \A w \in Elems(combined) : Count(combined, w) <= Count(workouts, w)

\* a run in which a non-authoritative record was removed next to Hevy records
C1_Witness ==
    /\ dpc = "return"
    /\ \E w \in Elems(workouts) : w.source = "hevy"
    /\ Len(combined) < Len(workouts)

\* the two matching rules, as the claim words them
ClaimDelta(o, a) == Abs(o.workout_date - a.workout_date)
ClaimDirectOverlap(o, a) == ClaimDelta(o, a) < 1800
ClaimTimezoneShift(o, a) ==
    /\ Abs(OrZero(o.duration_minutes) - OrZero(a.duration_minutes)) <= 2
    /\ ClaimDelta(o, a) < 86400
    /\ (ClaimDelta(o, a) % 3600 < 300 \/ ClaimDelta(o, a) % 3600 > 3300)
ClaimDuplicates(o, a) == ClaimDirectOverlap(o, a) \/ ClaimTimezoneShift(o, a)

\* C2: with at least one Hevy record in the input, no surviving record of
\* another source has a Hevy record of the input within 1800 s of it, nor one
\* that matches it under the timezone-shift rule.
C2_NoSurvivingDuplicate ==
    (dpc = "return" /\ \E a \in Elems(workouts) : a.source = "hevy") =>
        \A o \in Elems(combined) :
            o.source # "hevy" =>
                \A a \in Elems(workouts) :
                    a.source = "hevy" => ~ClaimDuplicates(o, a)

\* Hevy at T = 19799 for 60 min, the other record at T - 5 h for 61 min: the
\* other record is gone from the output
C2_Witness ==
    LET a == [source |-> "hevy", workout_date |-> 19799, duration_minutes |-> Some(60)]
        o == [source |-> "apple_health", workout_date |-> 1799, duration_minutes |-> Some(61)]
    IN  /\ dpc = "return"
        /\ workouts = <<o, a>>
        /\ combined = <<a>>


RECURSIVE Orderings(_)
Orderings(S) ==
    IF S = {} THEN {<<>>}
    ELSE UNION { { <<x>> \o rest : rest \in Orderings(S \ {x}) } : x \in S }

UserRows(u) == { r \in cache : r.user_id = u }

C4_UniqueKey ==
    \A r \in cache, q \in cache :
        (r.user_id = q.user_id /\ r.source = q.source
            /\ r.source_workout_id = q.source_workout_id) => r = q

\* two open requests upsert a key the cache already holds: one has run its
\* statement, the other waits for it
C4_Witness ==
    \E c \in Requests, d \in Requests :
        /\ c # d
        /\ pc[c] = "commit" /\ pc[d] = "execute"
        /\ BatchKeys(batch[c]) = BatchKeys(batch[d])
        /\ BatchKeys(batch[c]) \subseteq KeysOf(cache)

\* a step in which request c's commit succeeds
CommitStep(c) == pc[c] = "commit" /\ pc'[c] \in {"fetch", "done"}

\* request c commits the very batch that was committed last, on the same path
Repeats(c) ==
    lastUpsert = [path |-> kind[c], user_id |-> user[c], records |-> batch[c]]

StripStamps(rows) ==
    { [f \in DOMAIN r \ {"last_synced", "updated_at"} |-> r[f]] : r \in rows }

RowsAreWholeRecords ==
    \A r \in cache :
        IF r.source = "hevy"
        THEN \E w \in RemoteWorkouts : RecordOf(r) = HevyRecord(r.user_id, w)
        ELSE \E e \in AppleEntries : RecordOf(r) = AppleRecord(r.user_id, e)

CommitWritesWhole(c) ==
    \A i \in 1..Len(batch[c]) : \E r \in cache' : RecordOf(r) = batch[c][i]

\* C6: with two requests upserting one key at once, every row always equals
\* the complete record of one call, and the row a commit leaves equals the
\* complete record of the call that committed: never a mixture of two.
C6_NoMixedRow ==
    /\ []RowsAreWholeRecords
    /\ [][\A c \in Requests : CommitStep(c) => CommitWritesWhole(c)]_vars

\* two syncs of one user hold different records for the same key, one with
\* its statement run, the other waiting
C6_Witness ==
    \E c \in Requests, d \in Requests :
        /\ c # d
        /\ kind[c] = "hevy" /\ kind[d] = "hevy" /\ user[c] = user[d]
        /\ pc[c] = "commit" /\ pc[d] = "execute"
        /\ BatchKeys(batch[c]) = BatchKeys(batch[d])
        /\ batch[c] # batch[d]
        /\ BatchKeys(batch[c]) \subseteq KeysOf(cache)

\* C7: when the statement or its commit raises, no record of the batch is
\* applied: the cache is as before the batch and nothing stays uncommitted.
C7_FailedBatchAppliesNothing ==
    [][\A c \in Requests :
          (pc[c] \in {"execute", "commit"} /\ pc'[c] = "failed") =>
              (cache' = cache /\ pending'[c] = {})]_vars

\* a batch of two keys, one already cached with other values and one new,
\* has failed in the database
C7_Witness ==
    \E c \in Requests :
        /\ pc[c] = "failed"
        /\ response[c].status = 500 /\ response[c].cause = "database"
        /\ Len(batch[c]) = 2 /\ DistinctKeys(batch[c])
        /\ \E i \in 1..2 : KeyOf(batch[c][i]) \notin KeysOf(cache)
        /\ \E i \in 1..2 : \E r \in cache :
              KeyOf(r) = KeyOf(batch[c][i]) /\ RecordOf(r) # batch[c][i]

\* C8: every call of sync_hevy_workouts returns or raises, whatever the
\* remote answers.
C8_SyncTerminates == <>(pc["r1"] \in {"done", "failed"})

\* C9: every sync call that has ended, by return or by an error, has
\* reported a processed count to its caller.
C9_AlwaysReportsCount ==
    \A c \in Requests :
        (kind[c] = "hevy" /\ pc[c] \in {"done", "failed"})
            => "workouts_synced" \in DOMAIN response[c]

\* C10: when the fetch of a page fails, the caller gets the error, nothing is
\* rolled back, and the records of the page committed before it are still in
\* the cache.
C10_FetchFailureKeepsCommittedPages ==
    [][\A c \in Requests :
          (pc[c] = "fetch" /\ pc'[c] = "failed" /\ workouts_json'[c] = workouts_json[c]) =>
              /\ response'[c].status = 500 /\ response'[c].cause = "transport"
              /\ pending[c] = {}
              /\ cache' = cache
              /\ page[c] > 1 =>
                    \A i \in 1..Len(batch[c]) :
                        \E r \in cache' : RecordOf(r) = batch[c][i]]_vars

\* the fetch of page 2 has failed after page 1 was committed
C10_Witness ==
    \E c \in Requests :
        /\ pc[c] = "failed"
        /\ response[c].status = 500 /\ response[c].cause = "transport"
        /\ page[c] = 2 /\ total_processed[c] = PageSize
        /\ \A i \in 1..Len(batch[c]) : \E r \in cache : RecordOf(r) = batch[c][i]

\* the workouts of a page that carry both timestamps
WellFormed(ws) == SelectSeq(ws, HasTimestamps)

\* C11: when a fetched page holds a workout without its start or end
\* timestamp, the sync does not fail: it leaves that record out, and the
\* records it goes on to upsert are those of every other workout of the page.
C11_MalformedRecordSkipped ==
    [][\A c \in Requests :
          (pc[c] = "fetch" /\ pc'[c] # "fetch"
              /\ \E i \in 1..Len(workouts_json'[c]) : ~HasTimestamps(workouts_json'[c][i])) =>
              /\ pc'[c] # "failed"
              /\ batch'[c] = HevyRecords(user[c], WellFormed(workouts_json'[c]))]_vars

\* the first page of request c has come back empty and the call has returned
EmptyFirstPage(c) ==
    /\ kind[c] = "hevy" /\ pc[c] = "done"
    /\ page[c] = 1 /\ workouts_json[c] = <<>>

\* a step in which the tool answers the first call of request c (it does not
\* raise) with no workouts
ReturnsEmptyFirstPage(c) ==
    /\ pc[c] = "fetch" /\ pc'[c] # "fetch" /\ page[c] = 1
    /\ workouts_json'[c] = <<>>
    /\ ~(pc'[c] = "failed" /\ response'[c].cause = "transport")

\* C12 (as the spec words it): a sync whose first page is empty returns
\* without error, with a count of 0 and the message "no workouts found".
C12_EmptyFirstPageNoWorkoutsFound ==
    \A c \in Requests :
        EmptyFirstPage(c) =>
            /\ response[c].status = 200
            /\ response[c].workouts_synced = 0
            /\ response[c].message = <<"no workouts found">>

\* C12 (amended): a sync whose first page is empty returns without error,
\* with a count of 0 and the same message as every successful sync,
\* "Successfully synced 0 workouts from Hevy via MCP."; neither entering the
\* call nor the empty page changes a committed row or leaves one uncommitted.
C12_EmptyFirstPageSyncsZero ==
    /\ [][\A c \in Requests : ReturnsEmptyFirstPage(c) => pc'[c] = "done"]_vars
    /\ [](\A c \in Requests :
            EmptyFirstPage(c) =>
                /\ response[c].status = 200 /\ response[c].success
                /\ response[c].workouts_synced = 0
                /\ response[c].message =
                       <<"Successfully synced ", 0, " workouts from Hevy via MCP.">>)
    /\ [][\A c \in Requests :
              (kind'[c] = "hevy" /\ pc[c] \in {"idle", "fetch"} /\ pc'[c] \in {"fetch", "done"}
                  /\ page'[c] = 1 /\ workouts_json'[c] = <<>>) =>
                  (cache' = cache /\ pending' = pending)]_vars

\* the cache holds rows and a sync has returned on an empty first page
C12_Witness ==
    \E c \in Requests :
        /\ EmptyFirstPage(c)
        /\ response[c].status = 200
        /\ cache # {}

\* C13: when a committed upsert hits a key the cache already holds, the row
\* of that key afterwards carries the new record's values and a last_synced
\* equal to the time of that upsert, on the Hevy path as on the save path.
C13_CollisionRefreshesLastSynced ==
    [][\A c \in Requests :
          CommitStep(c) =>
              \A i \in 1..Len(batch[c]) :
                  KeyOf(batch[c][i]) \in KeysOf(cache) =>
                      \E r \in cache' :
                          /\ KeyOf(r) = KeyOf(batch[c][i])
                          /\ RecordOf(r) = batch[c][i]
                          /\ r.last_synced = now]_vars

\* C14: in every step, each row of the cache is still there with its id, its
\* user_id, source and source_workout_id and its created_at, and it is the
\* only row of its key: an upsert that hits the key writes into that row.
C14_IdentityAndCreationKept ==
    [][\A r \in cache :
          /\ \E q \in cache' :
                q.id = r.id /\ KeyOf(q) = KeyOf(r) /\ q.created_at = r.created_at
          /\ \A q \in cache' : KeyOf(q) = KeyOf(r) => q.id = r.id]_vars

\* a row that an upsert has hit after its creation (its last_synced is
\* later than its created_at), next to a Hevy row
C14_Witness ==
    /\ \E r \in cache :
          /\ r.source = "apple_health"
          /\ r.created_at < r.last_synced
          /\ r.title = "Walk"
    /\ \E r \in cache : r.source = "hevy"

\* C15: whatever the candidate list, the list deduplicate_workouts returns
\* is in descending order of workout_date.
C15_OutputSortedDescending ==
    dpc = "return" =>
        \A i \in 1..(Len(combined) - 1) :
            combined[i].workout_date >= combined[i + 1].workout_date

\* a field of a set that is there and is not null
Present(set_data, k) == k \in DOMAIN set_data /\ set_data[k] # None

\* what one set adds to the volume and to bodyweight_reps, as C16 words it
ClaimSetVolume(set_data) ==
    IF Present(set_data, "weight_kg")
    THEN set_data.weight_kg[1] * (IF Present(set_data, "reps") THEN set_data.reps[1] ELSE 0)
    ELSE 0
ClaimSetBodyweightReps(set_data) ==
    IF ~Present(set_data, "weight_kg") /\ Present(set_data, "reps")
    THEN set_data.reps[1]
    ELSE 0

RECURSIVE ClaimVolume(_)
ClaimVolume(sets) ==
    IF sets = <<>> THEN 0 ELSE ClaimSetVolume(Head(sets)) + ClaimVolume(Tail(sets))
RECURSIVE ClaimBodyweightReps(_)
ClaimBodyweightReps(sets) ==
    IF sets = <<>> THEN 0
    ELSE ClaimSetBodyweightReps(Head(sets)) + ClaimBodyweightReps(Tail(sets))

MetricsReturnedOrRaised == mpc \in {"muscles", "done", "raised"}

\* C16: for a workout with its timestamps the metric calculator returns, and
\* each set has fed one accumulator at most: a set with a weight adds
\* weight x reps to the volume (reps absent counts as 0) and nothing to
\* bodyweight_reps, a set without weight but with reps adds its reps to
\* bodyweight_reps and nothing to the volume; {weight 100, reps 5} and
\* {weight none, reps 10} on one exercise give volume 500, bodyweight_reps 10.
C16_SetFeedsOneAccumulator ==
    (MetricsReturnedOrRaised /\ HasTimestamps(workout)) =>
        /\ "error" \notin DOMAIN metrics
        /\ metrics.total_volume_kg = ClaimVolume(AllSets(Exercises(workout)))
        /\ metrics.bodyweight_reps = ClaimBodyweightReps(AllSets(Exercises(workout)))
        /\ Exercises(workout) = << [sets |-> << [weight_kg |-> Some(100), reps |-> Some(5)],
                                               [weight_kg |-> None, reps |-> Some(10)] >>] >>
              => (metrics.total_volume_kg = 500 /\ metrics.bodyweight_reps = 10)

MetricsReturned == mpc \in {"muscles", "done"}

\* C17 (as the spec words it): for every start and end, end before start
\* included, duration_minutes is the floor of (end - start) seconds / 60.
C17_DurationIsFloor ==
    MetricsReturned =>
        metrics.duration_minutes = (workout.end_time - workout.start_time) \div 60

\* C17 (amended): duration_minutes is (end - start) seconds / 60 with the
\* fraction cut off toward zero: the floor when end is not before start, the
\* ceiling when it is; a zero or negative value is kept, not clamped.
C17_DurationTruncates ==
    MetricsReturned =>
        LET seconds == workout.end_time - workout.start_time
            d == metrics.duration_minutes
        IN  /\ seconds >= 0 => (d * 60 <= seconds /\ seconds < (d + 1) * 60)
            /\ seconds < 0 => ((d - 1) * 60 < seconds /\ seconds <= d * 60)

\* end 90 s before start: -1 minute, where the floor is -2
C17_Witness ==
    /\ MetricsReturned
    /\ workout.start_time = 90 /\ workout.end_time = 0
    /\ metrics.duration_minutes = -1

\* the muscle group of one exercise as C18 words it: the first of the four
\* steps that succeeds
ClaimResolve(ex, by_id, by_name) ==
    LET name == Lower(GetOr(ex, "name", ""))
    IN  IF "exercise_template_id" \in DOMAIN ex /\ ex.exercise_template_id \in DOMAIN by_id
        THEN {by_id[ex.exercise_template_id]}
        ELSE IF name \in DOMAIN by_name THEN {by_name[name]}
        ELSE IF HasParen(name) /\ BeforeParen(name) \in DOMAIN by_name
        THEN {by_name[BeforeParen(name)]}
        ELSE IF "muscle_group" \in DOMAIN ex THEN {ex.muscle_group}
        ELSE {}

\* C18: the muscle groups of a workout are those its exercises resolve to,
\* each by the first step that succeeds among template id, lowercased name,
\* name without its parenthetical, embedded field; a workout of one exercise
\* has at most one muscle group, and none when all four steps fail.
C18_FirstStepThatSucceeds ==
    mpc = "done" =>
        /\ muscle_groups =
              UNION { ClaimResolve(Exercises(workout)[i], TEMPLATE_MAP, TEMPLATE_NAME_MAP) :
                          i \in 1..Len(Exercises(workout)) }
        /\ Len(Exercises(workout)) = 1 => Cardinality(muscle_groups) <= 1

EmbeddedGroups(w) ==
    { Exercises(w)[i].muscle_group :
        i \in { j \in 1..Len(Exercises(w)) : "muscle_group" \in DOMAIN Exercises(w)[j] } }

ClaimWindow == RecentSessions(SortAsc(sessions))
ClaimFirst == ClaimWindow[1].max_weight_lbs
ClaimLast == ClaimWindow[Len(ClaimWindow)].max_weight_lbs
ClaimDays == (ClaimWindow[Len(ClaimWindow)].date - ClaimWindow[1].date) \div 24

ClaimPlateau ==
    /\ \/ ClaimLast * 1000 <= ClaimFirst * 1025
       \/ \E i \in 1..Len(ClaimWindow) : ClaimLast < ClaimWindow[i].max_weight_lbs
    /\ ClaimDays > 14

\* C20: detect_plateaus returns INSUFFICIENT_DATA for fewer than 4 sessions;
\* otherwise, over the most recent 5 sessions, PLATEAU_DETECTED exactly when
\* (last <= first x 1.025 or last < the maximum of the window) and more than
\* 14 days lie between the first and the last session, and PROGRESSING
\* otherwise; [200,202,201,200,199] over 20 days is a plateau and
\* [200,205,210,215,220] over 20 days is progressing.
C20_PlateauRule ==
    ppc = "return" =>
        /\ "status" \in DOMAIN plateau
        /\ plateau.status =
              IF Len(sessions) < 4 THEN "INSUFFICIENT_DATA"
              ELSE IF ClaimPlateau THEN "PLATEAU_DETECTED"
              ELSE "PROGRESSING"
        /\ sessions = History(5, 120, <<200, 202, 201, 200, 199>>)
              => plateau.status = "PLATEAU_DETECTED"
        /\ sessions = History(5, 120, <<200, 205, 210, 215, 220>>)
              => plateau.status = "PROGRESSING"

\* C21: whatever the cache holds and whatever the window (0 days included),
\* get_workout_analysis returns a well-formed result and raises nothing: the
\* "no data" result when no row lies in the window, the report otherwise;
\* and whatever the sessions (weights of 0, none or too few), detect_plateaus
\* returns a result with a status, INSUFFICIENT_DATA for fewer than 4.
C21_ReportsNeverRaise ==
    /\ (apc = "return" /\ analysis # None) =>
          /\ "error" \notin DOMAIN analysis
          /\ "total_workouts" \in DOMAIN analysis
          /\ (Since(stored, Today - days) = {}) <=> ("message" \in DOMAIN analysis)
    /\ (ppc = "return" /\ plateau # None) =>
          /\ "error" \notin DOMAIN plateau
          /\ "status" \in DOMAIN plateau
          /\ Len(sessions) < MinSessions => plateau.status = "INSUFFICIENT_DATA"

\* the percentage of a group as the report gives it
ClaimPct(g) == balance.muscle_group_distribution[g]
ClaimFlags(g) == { d \in balance.imbalance_details : d.muscle_group = g }

\* C22: each group of the ideal-range table is flagged undertrained with
\* deficit = min - pct exactly when its percentage is below its range,
\* overtrained with excess = pct - max exactly when above, and not flagged
\* inside; the push/pull imbalance is flagged exactly when chest% +
\* shoulders% > back% x 1.3; {chest 30, back 10, legs 25, shoulders 10, arms
\* 15, core 10} has chest overtrained, back undertrained and the push/pull
\* imbalance.
C22_BalanceFlags ==
    (bpc = "return" /\ "error" \notin DOMAIN balance) =>
        /\ \A g \in MuscleGroups :
              LET lo == IdealRanges[g][1] * 10
                  hi == IdealRanges[g][2] * 10
              IN  ClaimFlags(g) =
                    IF ClaimPct(g) < lo
                    THEN { [muscle_group |-> g, type |-> "undertrained",
                            current_percentage |-> ClaimPct(g), deficit |-> lo - ClaimPct(g)] }
                    ELSE IF ClaimPct(g) > hi
                    THEN { [muscle_group |-> g, type |-> "overtrained",
                            current_percentage |-> ClaimPct(g), excess |-> ClaimPct(g) - hi] }
                    ELSE {}
        /\ balance.push_pull <=>
              (ClaimPct("chest") + ClaimPct("shoulders")) * 10 > ClaimPct("back") * 13
        /\ balance.muscle_group_distribution =
              [chest |-> 300, back |-> 100, legs |-> 250, shoulders |-> 100,
               arms |-> 150, core |-> 100, glutes |-> 0]
              => /\ \E d \in ClaimFlags("chest") : d.type = "overtrained"
                 /\ \E d \in ClaimFlags("back") : d.type = "undertrained"
                 /\ balance.push_pull

\* the reconciled history of the window: the rows of the query after
\* deduplicate_workouts
ClaimReconciled == deduplicate_workouts(AscendingByDate(Since(stored, Today - days)))

\* C23: the frequency report runs over the reconciled history: a session
\* stored both as a Hevy record and as a wearable record that duplicates it
\* counts once in total_workouts and in workouts_per_week.
C23_ReportCountsSessionOnce ==
    (apc = "return" /\ analysis # None /\ "error" \notin DOMAIN analysis) =>
        /\ analysis.total_workouts = Len(ClaimReconciled)
        /\ "workouts_per_week" \in DOMAIN analysis =>
              analysis.workouts_per_week = RoundTenths(Len(ClaimReconciled) * 7, days)

\* C24: a record of another source is discarded only when some Hevy record
\* of the same list matches it under the direct-overlap rule or the
\* timezone-shift rule: one that no Hevy record matches is in the output, as
\* often as in the input.
C24_UnmatchedOtherSurvives ==
    dpc = "return" =>
        \A o \in Elems(workouts) :
            (o.source # "hevy"
                /\ \A a \in Elems(workouts) : a.source = "hevy" => ~ClaimDuplicates(o, a))
            => Count(combined, o) = Count(workouts, o)

\* next to a Hevy record, two records it does not match are kept: one a
\* whole five hours before it whose duration differs by 4 minutes, and one
\* 18 h 30 min after it
C24_Witness ==
    LET a == [source |-> "hevy", workout_date |-> 19799, duration_minutes |-> Some(60)]
        far == [source |-> "apple_health", workout_date |-> 1799, duration_minutes |-> Some(64)]
        late == [source |-> "apple_health", workout_date |-> 86400, duration_minutes |-> Some(61)]
    IN  /\ dpc = "return"
        /\ workouts = <<far, a, late>>
        /\ combined = <<late, a, far>>

\* C25: whenever a sync waits on the fetch of a page, it holds no
\* uncommitted write and the records of the page before are in the cache;
\* and a fetch is entered only from the start of the call or from a step
\* that commits the rows of the page before and leaves none uncommitted.
C25_NoTransactionAcrossFetch ==
    /\ [](\A c \in Requests :
            pc[c] = "fetch" =>
                /\ pending[c] = {}
                /\ \A i \in 1..Len(batch[c]) : \E r \in cache : RecordOf(r) = batch[c][i])
    /\ [][\A c \in Requests :
              (pc[c] # "fetch" /\ pc'[c] = "fetch") =>
                  \/ pc[c] = "idle" /\ page'[c] = 1 /\ pending[c] = {}
                  \/ /\ pc[c] = "commit" /\ page'[c] = Min(page[c] + 1, MaxPage)
                     /\ pending[c] \subseteq cache'
                     /\ pending'[c] = {}]_vars

\* a sync waits on the fetch of page 2 with the full page 1 in the cache
C25_Witness ==
    \E c \in Requests :
        /\ pc[c] = "fetch" /\ page[c] = 2
        /\ Len(batch[c]) = PageSize
        /\ \A i \in 1..Len(batch[c]) : \E r \in cache : RecordOf(r) = batch[c][i]

\* C26: a row changes only in the commit of an ingestion of its own user,
\* source and source_workout_id, and then it stays the row of that key; so a
\* sync for one user changes no row of another user and no row of another
\* source, a save changes no row whose key is not in its batch, and no step
\* deletes a row.
C26_OnlySameKeyIngestionChangesRow ==
    [][\A r \in cache :
          \/ r \in cache'
          \/ \E c \in Requests :
                /\ CommitStep(c)
                /\ r.user_id = user[c] /\ r.source = kind[c]
                /\ \E i \in 1..Len(batch[c]) :
                      /\ batch[c][i].user_id = r.user_id
                      /\ batch[c][i].source = r.source
                      /\ batch[c][i].source_workout_id = r.source_workout_id
                /\ \E q \in cache' :
                      /\ q.id = r.id /\ q.user_id = r.user_id /\ q.source = r.source
                      /\ q.source_workout_id = r.source_workout_id]_vars

\* u2's sync of workout w1 has returned; u1 holds another version of w1
\* under the same source and id, and u2 holds a wearable record as well
C26_Witness ==
    /\ pc["r1"] = "done" /\ kind["r1"] = "hevy" /\ user["r1"] = "u2"
    /\ \E r \in cache, q \in cache, a \in cache :
          /\ r.user_id = "u1" /\ q.user_id = "u2"
          /\ r.source = "hevy" /\ q.source = "hevy"
          /\ r.source_workout_id = q.source_workout_id
          /\ r.title # q.title
          /\ a.user_id = "u2" /\ a.source = "apple_health"

\* C27: deduplicate_workouts applied to its own output returns that output:
\* the same records in the same order.
C27_DedupIdempotent ==
    dpc = "return" => deduplicate_workouts(combined) = combined

\* the first application dropped a record and moved records, two records
\* of one date among them
C27_Witness ==
    /\ dpc = "return"
    /\ Len(combined) < Len(workouts)
    /\ \E i \in 1..Len(combined) : combined[i] # workouts[i]
    /\ \E i \in 1..Len(combined), j \in 1..Len(combined) :
          /\ i < j /\ combined[i] # combined[j]
          /\ combined[i].workout_date = combined[j].workout_date

\* the rearrangements of a list of n records, n up to MaxLen
Rearrangements ==
    [n \in 0..MaxLen |->
        { f \in [1..n -> 1..n] : \A i \in 1..n, j \in 1..n : f[i] = f[j] => i = j }]
Rearranged(ws, f) == [i \in 1..Len(ws) |-> ws[f[i]]]

\* C28: every rearrangement of the input gives the same surviving records,
\* each as often; and a record of another source survives exactly when it
\* survives next to the Hevy records alone, whatever other records of other
\* sources are in the list.
C28_SurvivorsIndependentOfOrder ==
    dpc = "return" =>
        /\ \A f \in Rearrangements[Len(workouts)] :
              LET again == deduplicate_workouts(Rearranged(workouts, f))
              IN  /\ Len(again) = Len(combined)
                  /\ \A i \in 1..Len(again) : Count(again, again[i]) = Count(combined, again[i])
        /\ \A o \in Elems(workouts) :
              o.source # "hevy" =>
                  ((o \in Elems(combined))
                      <=> (o \in Elems(deduplicate_workouts(<<o>> \o HevyWorkouts(workouts)))))

\* two Hevy records, of which only the second matches the record of the
\* other source, which is gone; with the other order the match is the first
C28_Witness ==
    /\ dpc = "return"
    /\ Len(workouts) = 3 /\ Len(combined) = 2
    /\ workouts[1].source = "hevy" /\ workouts[2].source = "hevy"
    /\ workouts[3].source # "hevy"
    /\ ~ClaimDuplicates(workouts[3], workouts[1])
    /\ ClaimDuplicates(workouts[3], workouts[2])

\* C29: for every cache content and each of the three windows of
\* get_dashboard_stats, the records the route keeps (reconciling only the
\* rows inside the window) are the records of the window among those kept when
\* the user's whole cache is reconciled.
C29_DedupCommutesWithWindow ==
    hpc = "return" =>
        LET whole == DedupRows(stored)
        IN  /\ dashboard.workouts = ThisWeek(whole)
            /\ dashboard.month_workouts = ThisQuarter(whole)
            /\ dashboard.prev_14_days = Previous14(whole)

\* the ids of the page request c fetched last have rows of its user
PageStored(c, rows) ==
    \A i \in 1..Len(workouts_json[c]) :
        \E r \in rows : /\ r.user_id = user[c]
                        /\ r.source = "hevy"
                        /\ r.source_workout_id = workouts_json[c][i].id

\* C30: sync_hevy_workouts starts at page 1 with a count of 0 and changes the
\* page number only by going from a committed page to the next one; it goes on
\* only with sync_all and after a full page, so without sync_all it stays at
\* page 1, and with it every page before the current one was full; a commit
\* stores the ids of the page just fetched and no step removes a row; and on
\* return the count is the full pages before the last one plus the size of the
\* last one (page numbers below the cap MaxPage).
C30_PagesInOrderAndCounted ==
    [][\A c \in Requests :
          /\ (pc[c] = "idle" /\ pc'[c] = "fetch") =>
                 page'[c] = 1 /\ total_processed'[c] = 0
          /\ (pc[c] = "commit" /\ pc'[c] = "fetch") =>
                 /\ sync_all[c]
                 /\ Len(workouts_json[c]) = PageSize
                 /\ page[c] < MaxPage =>
                        /\ page'[c] = page[c] + 1
                        /\ total_processed'[c] = page[c] * PageSize
          /\ (page'[c] # page[c]) =>
                 \/ pc[c] = "commit" /\ pc'[c] = "fetch"
                 \/ pc'[c] = "idle"
          /\ (kind'[c] = "hevy" /\ ~sync_all'[c]) => page'[c] = 1
          /\ (kind[c] = "hevy" /\ pc[c] = "commit" /\ pc'[c] \in {"fetch", "done"}) =>
                 PageStored(c, cache')
          /\ \A r \in cache : \E q \in cache' : KeyOf(q) = KeyOf(r)
          /\ (kind[c] = "hevy" /\ pc[c] = "commit" /\ pc'[c] = "done") =>
                 /\ ~sync_all[c] \/ Len(workouts_json[c]) < PageSize
                 /\ page[c] < MaxPage =>
                        total_processed'[c] = (page[c] - 1) * PageSize + Len(workouts_json[c])
                 /\ response'[c] = SyncSummary(total_processed'[c])
          /\ (pc[c] = "fetch" /\ pc'[c] = "done") =>
                 /\ workouts_json'[c] = <<>>
                 /\ page[c] < MaxPage =>
                        total_processed'[c] = (page[c] - 1) * PageSize
                 /\ response'[c] = SyncSummary(total_processed'[c])]_vars

\* a full sync returned after a full first page and a short second one
C30_Witness ==
    \E c \in Requests :
        /\ pc[c] = "done" /\ kind[c] = "hevy" /\ sync_all[c]
        /\ page[c] = 2
        /\ Len(workouts_json[c]) \in 1..(PageSize - 1)
        /\ total_processed[c] = PageSize + Len(workouts_json[c])
        /\ PageStored(c, cache)

====
